---- MODULE Spec2Model ----
(***************************************************************************)
(* The renter's memoryManager: a priority-aware admission controller for   *)
(* memory quota.  Request and Return are modelled from the source; every   *)
(* action is one critical section of mm.mu or one step a goroutine takes   *)
(* outside the lock (the non-blocking send on mm.blocking, the final       *)
(* select on myRequest.done / mm.stop).                                    *)
(***************************************************************************)
EXTENDS Integers, Sequences, FiniteSets

\* ---------------------------------------------------------------- bounds
MaxBase == 2          \* baseMemory arguments are drawn from 0..MaxBase
MaxReserve == 2       \* priorityMemory arguments are drawn from 0..MaxReserve
MaxAmount == 2        \* Request/Return amounts are drawn from 0..MaxAmount
WordBits == 3         \* uint64 scaled down to WordBits bits

Word == 2^WordBits
\* The Request calls of one behaviour: three goroutines, enough for a holder
\* of quota and two waiters (of one class or one of each).
Calls == {1, 2, 3}

\* uint64 arithmetic: every sum and difference is taken modulo the word size.
U64(x) == x % Word

\* The GC threshold of Return (line 141); the constant is declared in the
\* renter's constants file, scaled down here.
defaultMemory == 1

memoryPriorityHigh == TRUE
memoryPriorityLow == FALSE

VARIABLES
    available,        \* mm.available
    base,             \* mm.base
    memSinceGC,       \* mm.memSinceGC
    priorityReserve,  \* mm.priorityReserve
    underflow,        \* mm.underflow
    fifo,             \* mm.fifo: sequence of memoryRequests (normal class)
    priorityFifo,     \* mm.priorityFifo: sequence of memoryRequests (priority)
    blocking,         \* number of notes buffered in mm.blocking (capacity 1);
                      \*   nothing in the package receives from it
    stop,             \* TRUE once the stop channel has been closed
    pc,               \* per call: "idle", "notify", "wait", "true", "false"
    done,             \* per call: TRUE once myRequest.done has been closed
    held,             \* history: quota of calls that returned true, not yet returned
    parked,           \* history: per call, quota a drain admitted for it and that
                      \*   its Request has not (or never) reported as acquired
    misused,          \* history: some Return gave back more than callers held
    grantLog,         \* history: the admissions made by the latest step, in order
    lastCall,         \* history: what the latest step did besides admitting:
                      \*   the underflow it paid (lines 152, 155-156) and
                      \*   whether it reported build.Critical (line 163)
    atStop            \* history: the calls still inside Request that were
                      \*   queued, with done still open, when the stop channel
                      \*   was closed

vars == <<available, base, memSinceGC, priorityReserve, underflow, fifo,
          priorityFifo, blocking, stop, pc, done, held, parked, misused,
          grantLog, lastCall, atStop>>

mmVars == <<available, base, memSinceGC, priorityReserve, underflow, fifo,
            priorityFifo>>

\* ------------------------------------------------------------- helpers
Min(a, b) == IF a <= b THEN a ELSE b

RECURSIVE SumOver(_, _)
SumOver(f, S) ==
    IF S = {} THEN 0
    ELSE LET x == CHOOSE y \in S : TRUE IN f[x] + SumOver(f, S \ {x})

\* The calls whose memoryRequest is in queue q.
Ids(q) == {q[i].id : i \in 1..Len(q)}

\* A queued request: the call that waits on its done channel, and its amount.
memoryRequest(r, amt) == [id |-> r, amount |-> amt]

\* ----------------------------------------------------------------- try
\* Variants of try with a slip in one branch.
tryIgnoresReserve(av, uf, amt, priority) ==
    IF av >= amt
    THEN [ok |-> TRUE, available |-> U64(av - amt), underflow |-> uf,
          path |-> "normal"]
    ELSE IF av = base /\ amt >= av
    THEN [ok |-> TRUE, available |-> 0, underflow |-> U64(amt - base),
          path |-> "borrow"]
    ELSE [ok |-> FALSE, available |-> av, underflow |-> uf, path |-> "none"]

tryOffByOne(av, uf, amt, priority) ==
    IF av + 1 >= U64(amt + priorityReserve) \/ (priority /\ av >= amt)
    THEN [ok |-> TRUE, available |-> U64(av - amt), underflow |-> uf,
          path |-> "normal"]
    ELSE IF av = base /\ amt >= av
    THEN [ok |-> TRUE, available |-> 0, underflow |-> U64(amt - base),
          path |-> "borrow"]
    ELSE [ok |-> FALSE, available |-> av, underflow |-> uf, path |-> "none"]

tryNoBorrow(av, uf, amt, priority) ==
    IF av >= U64(amt + priorityReserve) \/ (priority /\ av >= amt)
    THEN [ok |-> TRUE, available |-> U64(av - amt), underflow |-> uf,
          path |-> "normal"]
    ELSE [ok |-> FALSE, available |-> av, underflow |-> uf, path |-> "none"]

\* A variant of try that empties the pool when it refuses.
tryRefusalSpends(av, uf, amt, priority) ==
    IF av >= U64(amt + priorityReserve) \/ (priority /\ av >= amt)
    THEN [ok |-> TRUE, available |-> U64(av - amt), underflow |-> uf,
          path |-> "normal"]
    ELSE IF av = base /\ amt >= av
    THEN [ok |-> TRUE, available |-> 0, underflow |-> U64(amt - base),
          path |-> "borrow"]
    ELSE [ok |-> FALSE, available |-> 0, underflow |-> uf, path |-> "none"]

\* try applied to the pool (av, uf): the result carries the pool as try leaves
\* it and which branch granted ("normal", "borrow" or "none").
try(av, uf, amt, priority) ==
    IF av >= U64(amt + priorityReserve) \/ (priority /\ av >= amt)
    THEN [ok |-> TRUE, available |-> U64(av - amt), underflow |-> uf,
          path |-> "normal"]
    ELSE IF av = base /\ amt >= av
    THEN [ok |-> TRUE, available |-> 0, underflow |-> U64(amt - base),
          path |-> "borrow"]
    ELSE [ok |-> FALSE, available |-> av, underflow |-> uf, path |-> "none"]

\* One admission, as logged: who, how much, in which class, by which branch
\* of try, from where ("fast" in Request, "drain" in Return), and the pool
\* right after it.
Grant(r, amt, priority, t, site) ==
    [id |-> r, amount |-> amt, priority |-> priority, path |-> t.path,
     site |-> site, available |-> t.available, underflow |-> t.underflow]

\* What lastCall records of a Return, and of any other step.
Returned(paid, critical) == [paid |-> paid, critical |-> critical]

NoReturn == Returned(0, FALSE)

\* ---------------------------------------------------------------- Init
newMemoryManager(baseMemory, priorityMemory) ==
    /\ available = baseMemory
    /\ base = baseMemory
    /\ priorityReserve = priorityMemory
    /\ memSinceGC = 0
    /\ underflow = 0
    /\ fifo = <<>>
    /\ priorityFifo = <<>>
    /\ blocking = 0
    /\ stop = FALSE

Init ==
    /\ \E b \in 0..MaxBase, p \in 0..MaxReserve : newMemoryManager(b, p)
    /\ pc = [r \in Calls |-> "idle"]
    /\ done = [r \in Calls |-> FALSE]
    /\ held = 0
    /\ parked = [r \in Calls |-> 0]
    /\ misused = FALSE
    /\ grantLog = <<>>
    /\ lastCall = NoReturn
    /\ atStop = {}

\* ------------------------------------------------------------- Request
\* A variant of shouldTry that looks at the priority queue only.
shouldTryIgnoresOwnClass(priority) == Len(priorityFifo) = 0

\* A variant of shouldTry that gives up the fast path once stop is closed.
shouldTryUnlessStopped(priority) ==
    /\ ~stop
    /\ Len(priorityFifo) = 0 /\ (priority = memoryPriorityHigh \/ Len(fifo) = 0)

\* A variant of shouldTry that lets nobody pass a queued waiter.
shouldTryOnlyWhenNobodyWaits(priority) ==
    Len(priorityFifo) = 0 /\ Len(fifo) = 0

shouldTry(priority) ==
    Len(priorityFifo) = 0 /\ (priority = memoryPriorityHigh \/ Len(fifo) = 0)

\* A variant of Request that keeps a single queue: every refused request
\* joins mm.fifo.
RequestOneQueue(r, amt, priority) ==
    /\ pc[r] = "idle"
    /\ \A q \in Calls : q < r => pc[q] # "idle"
    /\ \E t \in {try(available, underflow, amt, priority)} :
       IF shouldTry(priority) /\ t.ok
       THEN /\ available' = t.available
            /\ underflow' = t.underflow
            /\ pc' = [pc EXCEPT ![r] = "true"]
            /\ held' = held + amt
            /\ grantLog' = <<Grant(r, amt, priority, t, "fast")>>
            /\ UNCHANGED <<fifo, priorityFifo>>
       ELSE /\ fifo' = Append(fifo, memoryRequest(r, amt))
            /\ priorityFifo' = priorityFifo
            /\ pc' = [pc EXCEPT ![r] = "notify"]
            /\ grantLog' = <<>>
            /\ IF shouldTry(priority)
               THEN available' = t.available /\ underflow' = t.underflow
               ELSE UNCHANGED <<available, underflow>>
            /\ held' = held
    /\ lastCall' = NoReturn
    /\ UNCHANGED <<base, memSinceGC, priorityReserve, blocking, stop, done,
                   parked, misused, atStop>>

\* A variant of Request that sends the note on mm.blocking on the fast path
\* as well.
RequestFastPathNotes(r, amt, priority) ==
    /\ pc[r] = "idle"
    /\ \A q \in Calls : q < r => pc[q] # "idle"
    /\ \E t \in {try(available, underflow, amt, priority)} :
       IF shouldTry(priority) /\ t.ok
       THEN /\ available' = t.available
            /\ underflow' = t.underflow
            /\ pc' = [pc EXCEPT ![r] = "true"]
            /\ held' = held + amt
            /\ grantLog' = <<Grant(r, amt, priority, t, "fast")>>
            /\ blocking' = 1
            /\ UNCHANGED <<fifo, priorityFifo>>
       ELSE /\ IF priority
               THEN /\ priorityFifo' = Append(priorityFifo, memoryRequest(r, amt))
                    /\ fifo' = fifo
               ELSE /\ fifo' = Append(fifo, memoryRequest(r, amt))
                    /\ priorityFifo' = priorityFifo
            /\ pc' = [pc EXCEPT ![r] = "notify"]
            /\ grantLog' = <<>>
            /\ IF shouldTry(priority)
               THEN available' = t.available /\ underflow' = t.underflow
               ELSE UNCHANGED <<available, underflow>>
            /\ held' = held
            /\ blocking' = blocking
    /\ lastCall' = NoReturn
    /\ UNCHANGED <<base, memSinceGC, priorityReserve, stop, done,
                   parked, misused, atStop>>

\* The locked section of Request (lines 93-110) for call r.
Request(r, amt, priority) ==
    /\ pc[r] = "idle"
    /\ \A q \in Calls : q < r => pc[q] # "idle"   \* calls are numbered as issued
    /\ \E t \in {try(available, underflow, amt, priority)} :
       IF shouldTry(priority) /\ t.ok
       THEN /\ available' = t.available
            /\ underflow' = t.underflow
            /\ pc' = [pc EXCEPT ![r] = "true"]
            /\ held' = held + amt
            /\ grantLog' = <<Grant(r, amt, priority, t, "fast")>>
            /\ UNCHANGED <<fifo, priorityFifo>>
       ELSE /\ IF priority
               THEN /\ priorityFifo' = Append(priorityFifo, memoryRequest(r, amt))
                    /\ fifo' = fifo
               ELSE /\ fifo' = Append(fifo, memoryRequest(r, amt))
                    /\ priorityFifo' = priorityFifo
            /\ pc' = [pc EXCEPT ![r] = "notify"]
            /\ grantLog' = <<>>
            /\ IF shouldTry(priority)       \* try was called, and refused
               THEN available' = t.available /\ underflow' = t.underflow
               ELSE UNCHANGED <<available, underflow>>
            /\ held' = held
    /\ lastCall' = NoReturn
    /\ UNCHANGED <<base, memSinceGC, priorityReserve, blocking, stop, done,
                   parked, misused, atStop>>

\* A variant of the send that waits for room in the channel.
RequestNotifyBlocks(r) ==
    /\ pc[r] = "notify"
    /\ blocking < 1
    /\ blocking' = blocking + 1
    /\ pc' = [pc EXCEPT ![r] = "wait"]
    /\ grantLog' = <<>>
    /\ lastCall' = NoReturn
    /\ UNCHANGED <<mmVars, stop, done, held, parked, misused, atStop>>

\* The non-blocking send on mm.blocking (lines 115-118).
RequestNotify(r) ==
    /\ pc[r] = "notify"
    /\ blocking' = IF blocking < 1 THEN blocking + 1 ELSE blocking
    /\ pc' = [pc EXCEPT ![r] = "wait"]
    /\ grantLog' = <<>>
    /\ lastCall' = NoReturn
    /\ UNCHANGED <<mmVars, stop, done, held, parked, misused, atStop>>

\* A variant of the done case that fires although done is still open.
RequestWaitDoneUnguarded(r) ==
    /\ pc[r] = "wait"
    /\ pc' = [pc EXCEPT ![r] = "true"]
    /\ held' = held + parked[r]
    /\ parked' = [parked EXCEPT ![r] = 0]
    /\ grantLog' = <<>>
    /\ lastCall' = NoReturn
    /\ atStop' = atStop \ {r}
    /\ UNCHANGED <<mmVars, blocking, stop, done, misused>>

\* A variant of the done case in which the woken waiter takes its amount off
\* the pool itself.
RequestWaitDoneDeducts(r) ==
    /\ pc[r] = "wait"
    /\ done[r]
    /\ pc' = [pc EXCEPT ![r] = "true"]
    /\ available' = U64(available - parked[r])
    /\ held' = held + parked[r]
    /\ parked' = [parked EXCEPT ![r] = 0]
    /\ grantLog' = <<>>
    /\ lastCall' = NoReturn
    /\ atStop' = atStop \ {r}
    /\ UNCHANGED <<base, memSinceGC, priorityReserve, underflow, fifo,
                   priorityFifo, blocking, stop, done, misused>>

\* The select of lines 123-128: when both channels are ready Go picks either.
RequestWaitDone(r) ==
    /\ pc[r] = "wait"
    /\ done[r]
    /\ pc' = [pc EXCEPT ![r] = "true"]
    /\ held' = held + parked[r]
    /\ parked' = [parked EXCEPT ![r] = 0]
    /\ grantLog' = <<>>
    /\ lastCall' = NoReturn
    /\ atStop' = atStop \ {r}
    /\ UNCHANGED <<mmVars, blocking, stop, done, misused>>

\* Variants of the stop case: one that fires without the stop signal, one that
\* is taken only by a waiter that was released as well.
RequestWaitStopUnguarded(r) ==
    /\ pc[r] = "wait"
    /\ ~done[r]
    /\ pc' = [pc EXCEPT ![r] = "false"]
    /\ grantLog' = <<>>
    /\ lastCall' = NoReturn
    /\ atStop' = atStop \ {r}
    /\ UNCHANGED <<mmVars, blocking, stop, done, held, parked, misused>>

RequestWaitStopOnlyReleased(r) ==
    /\ pc[r] = "wait"
    /\ stop
    /\ done[r]
    /\ pc' = [pc EXCEPT ![r] = "false"]
    /\ grantLog' = <<>>
    /\ lastCall' = NoReturn
    /\ atStop' = atStop \ {r}
    /\ UNCHANGED <<mmVars, blocking, stop, done, held, parked, misused>>

RequestWaitStop(r) ==
    /\ pc[r] = "wait"
    /\ stop
    /\ pc' = [pc EXCEPT ![r] = "false"]
    /\ grantLog' = <<>>
    /\ lastCall' = NoReturn
    /\ atStop' = atStop \ {r}
    /\ UNCHANGED <<mmVars, blocking, stop, done, held, parked, misused>>

\* -------------------------------------------------------------- Return
\* One of the two release loops of Return (lines 168-178, 181-191): grant the
\* heads of q while try succeeds; `blocked` tells that a head was refused,
\* which makes Return return at once.
\* A variant of the release loop that gives up after its first release.
drainOneHead(q, av, uf, priority, log) ==
    IF Len(q) = 0
    THEN [q |-> q, available |-> av, underflow |-> uf, log |-> log,
          blocked |-> FALSE]
    ELSE LET t == try(av, uf, q[1].amount, priority) IN
         IF ~t.ok
         THEN [q |-> q, available |-> t.available, underflow |-> t.underflow,
               log |-> log, blocked |-> TRUE]
         ELSE [q |-> Tail(q), available |-> t.available,
               underflow |-> t.underflow,
               log |-> Append(log, Grant(q[1].id, q[1].amount, priority, t,
                                         "drain")),
               blocked |-> FALSE]

RECURSIVE drain(_, _, _, _, _)
drain(q, av, uf, priority, log) ==
    IF Len(q) = 0
    THEN [q |-> q, available |-> av, underflow |-> uf, log |-> log,
          blocked |-> FALSE]
    ELSE LET t == try(av, uf, q[1].amount, priority) IN
         IF ~t.ok
         THEN [q |-> q, available |-> t.available, underflow |-> t.underflow,
               log |-> log, blocked |-> TRUE]
         ELSE drain(Tail(q), t.available, t.underflow, priority,
                    Append(log, Grant(q[1].id, q[1].amount, priority, t,
                                      "drain")))

\* A variant of the GC counter that counts only what is left of the amount
\* once the underflow has been paid.
gcCounterAfterPayment(amt) ==
    LET rest == IF underflow > 0 THEN amt - Min(amt, underflow) ELSE amt
        sum == U64(memSinceGC + rest)
    IN  IF sum > defaultMemory THEN 0 ELSE sum

\* Lines 140-145: whether Return(amt) runs the GC, and memSinceGC after it.
runsGC(amt) == U64(memSinceGC + amt) > defaultMemory

gcCounter(amt) == IF runsGC(amt) THEN 0 ELSE U64(memSinceGC + amt)

\* A variant of payBack that adds the whole amount to the pool.
payBackIgnoresUnderflow(amt) ==
    LET sum == U64(available + amt)
    IN  [paidOnly |-> FALSE,
         available |-> IF sum > base THEN base ELSE sum,
         underflow |-> underflow,
         critical |-> sum > base,
         paid |-> 0]

\* A variant of payBack that reports the over-return but leaves the pool above
\* base.
payBackNoClamp(amt) ==
    IF underflow > 0 /\ amt <= underflow
    THEN [paidOnly |-> TRUE, available |-> available,
          underflow |-> U64(underflow - amt), critical |-> FALSE,
          paid |-> amt]
    ELSE LET rest == IF underflow > 0 /\ amt > underflow
                     THEN U64(amt - underflow) ELSE amt
             sum == U64(available + rest)
         IN  [paidOnly |-> FALSE,
              available |-> sum,
              underflow |-> IF underflow > 0 /\ amt > underflow
                            THEN 0 ELSE underflow,
              critical |-> sum > base,
              paid |-> IF underflow > 0 /\ amt > underflow THEN underflow ELSE 0]

\* Lines 147-165: the pool after the underflow has been paid and the rest
\* added; `paidOnly` is the early return of line 153, `critical` the sanity
\* check of line 162.
payBack(amt) ==
    IF underflow > 0 /\ amt <= underflow
    THEN [paidOnly |-> TRUE, available |-> available,
          underflow |-> U64(underflow - amt), critical |-> FALSE,
          paid |-> amt]
    ELSE LET rest == IF underflow > 0 /\ amt > underflow
                     THEN U64(amt - underflow) ELSE amt
             sum == U64(available + rest)
         IN  [paidOnly |-> FALSE,
              available |-> IF sum > base THEN base ELSE sum,
              underflow |-> IF underflow > 0 /\ amt > underflow
                            THEN 0 ELSE underflow,
              critical |-> sum > base,
              paid |-> IF underflow > 0 /\ amt > underflow THEN underflow ELSE 0]

\* A variant of releaseAll whose normal loop runs even when the priority loop
\* stopped at a refused head.
releaseAllNoEarlyReturn(av, uf) ==
    LET d1 == drain(priorityFifo, av, uf, memoryPriorityHigh, <<>>)
        d2 == drain(fifo, d1.available, d1.underflow, memoryPriorityLow, d1.log)
    IN  [priorityFifo |-> d1.q, fifo |-> d2.q, available |-> d2.available,
         underflow |-> d2.underflow, log |-> d2.log]

\* A variant of releaseAll that leaves the released waiters in their queues.
releaseAllKeepsQueues(av, uf) ==
    LET d1 == drain(priorityFifo, av, uf, memoryPriorityHigh, <<>>) IN
    IF d1.blocked
    THEN [priorityFifo |-> priorityFifo, fifo |-> fifo,
          available |-> d1.available, underflow |-> d1.underflow,
          log |-> d1.log]
    ELSE LET d2 == drain(fifo, d1.available, d1.underflow, memoryPriorityLow,
                         d1.log)
         IN  [priorityFifo |-> priorityFifo, fifo |-> fifo,
              available |-> d2.available, underflow |-> d2.underflow,
              log |-> d2.log]

\* Lines 167-191: the priority loop, then (unless it returned) the normal loop.
releaseAll(av, uf) ==
    LET d1 == drain(priorityFifo, av, uf, memoryPriorityHigh, <<>>) IN
    IF d1.blocked
    THEN [priorityFifo |-> d1.q, fifo |-> fifo, available |-> d1.available,
          underflow |-> d1.underflow, log |-> d1.log]
    ELSE LET d2 == drain(fifo, d1.available, d1.underflow, memoryPriorityLow,
                         d1.log)
         IN  [priorityFifo |-> d1.q, fifo |-> d2.q, available |-> d2.available,
              underflow |-> d2.underflow, log |-> d2.log]

\* Quota admitted by the drain log for call r.
Admitted(log, r) ==
    IF \E i \in 1..Len(log) : log[i].id = r
    THEN (CHOOSE g \in {log[i] : i \in 1..Len(log)} : g.id = r).amount
    ELSE 0

\* A variant of Return whose release reaches only a waiter that is already
\* blocked in its select: a signal, not a closed channel.
ReturnSignalsOnlyWaiting(amt) ==
    /\ memSinceGC' = gcCounter(amt)
    /\ \E p \in {payBack(amt)} :
       IF p.paidOnly
       THEN /\ underflow' = p.underflow
            /\ grantLog' = <<>>
            /\ UNCHANGED <<available, fifo, priorityFifo, done, parked>>
       ELSE \E d \in {releaseAll(p.available, p.underflow)} :
                /\ available' = d.available
                /\ underflow' = d.underflow
                /\ priorityFifo' = d.priorityFifo
                /\ fifo' = d.fifo
                /\ grantLog' = d.log
                /\ done' = [r \in Calls |->
                              \/ done[r]
                              \/ /\ pc[r] = "wait"
                                 /\ \E i \in 1..Len(d.log) : d.log[i].id = r]
                /\ parked' = [r \in Calls |-> parked[r] + Admitted(d.log, r)]
    /\ lastCall' = Returned(payBack(amt).paid, payBack(amt).critical)
    /\ held' = IF amt <= held THEN held - amt ELSE 0
    /\ misused' = (misused \/ amt > held)
    /\ UNCHANGED <<base, priorityReserve, blocking, stop, pc, atStop>>

\* A variant of Return that hands the grant over to the waiter in person: it
\* can run only when every waiter it releases is blocked in its select.
ReturnHandsOver(amt) ==
    /\ memSinceGC' = gcCounter(amt)
    /\ \E p \in {payBack(amt)} :
       IF p.paidOnly
       THEN /\ underflow' = p.underflow
            /\ grantLog' = <<>>
            /\ UNCHANGED <<available, fifo, priorityFifo, done, parked>>
       ELSE \E d \in {releaseAll(p.available, p.underflow)} :
                /\ \A i \in 1..Len(d.log) : pc[d.log[i].id] = "wait"
                /\ available' = d.available
                /\ underflow' = d.underflow
                /\ priorityFifo' = d.priorityFifo
                /\ fifo' = d.fifo
                /\ grantLog' = d.log
                /\ done' = [r \in Calls |->
                              done[r] \/ \E i \in 1..Len(d.log) : d.log[i].id = r]
                /\ parked' = [r \in Calls |-> parked[r] + Admitted(d.log, r)]
    /\ lastCall' = Returned(payBack(amt).paid, payBack(amt).critical)
    /\ held' = IF amt <= held THEN held - amt ELSE 0
    /\ misused' = (misused \/ amt > held)
    /\ UNCHANGED <<base, priorityReserve, blocking, stop, pc, atStop>>

\* The whole of Return (lines 133-192), one critical section.  A Return of no
\* more than callers hold uses the manager as intended; any other is recorded
\* in `misused`.
Return(amt) ==
    /\ memSinceGC' = gcCounter(amt)
    /\ \E p \in {payBack(amt)} :
       IF p.paidOnly
       THEN /\ underflow' = p.underflow
            /\ grantLog' = <<>>
            /\ UNCHANGED <<available, fifo, priorityFifo, done, parked>>
       ELSE \E d \in {releaseAll(p.available, p.underflow)} :
                /\ available' = d.available
                /\ underflow' = d.underflow
                /\ priorityFifo' = d.priorityFifo
                /\ fifo' = d.fifo
                /\ grantLog' = d.log
                /\ done' = [r \in Calls |->
                              done[r] \/ \E i \in 1..Len(d.log) : d.log[i].id = r]
                /\ parked' = [r \in Calls |-> parked[r] + Admitted(d.log, r)]
    /\ lastCall' = Returned(payBack(amt).paid, payBack(amt).critical)
    /\ held' = IF amt <= held THEN held - amt ELSE 0
    /\ misused' = (misused \/ amt > held)
    /\ UNCHANGED <<base, priorityReserve, blocking, stop, pc, atStop>>

\* ------------------------------------------------------------ environment
\* The owner of the stop channel closes it.
Stop ==
    /\ ~stop
    /\ stop' = TRUE
    /\ atStop' = {r \in Calls : pc[r] \in {"notify", "wait"} /\ ~done[r]}
    /\ grantLog' = <<>>
    /\ lastCall' = NoReturn
    /\ UNCHANGED <<mmVars, blocking, pc, done, held, parked, misused>>

\* ---------------------------------------------------------- specification
Next ==
    \/ \E r \in Calls, amt \in 0..MaxAmount, priority \in BOOLEAN :
          Request(r, amt, priority)
    \/ \E r \in Calls : RequestNotify(r)
    \/ \E r \in Calls : RequestWaitDone(r)
    \/ \E r \in Calls : RequestWaitStop(r)
    \/ \E amt \in 0..MaxAmount : Return(amt)
    \/ Stop

Spec == Init /\ [][Next]_vars

\* The scheduler runs a goroutine that can take a step outside the lock: the
\* send on mm.blocking never blocks, and a select with a ready case proceeds.
\* Nothing obliges anyone to call Request or Return.
Fairness ==
    \A r \in Calls :
        WF_vars(RequestNotify(r) \/ RequestWaitDone(r) \/ RequestWaitStop(r))

\* Callers that also ask for, and give back, the largest amounts a word holds:
\* with a reserve, amount + mm.priorityReserve (line 69) then wraps around.
WideAmounts == (0..MaxAmount) \cup ((Word - MaxReserve)..(Word - 1))

\* Two goroutines are enough to hold quota and to ask for more.
WideCalls == {1, 2}

WideNext ==
    \/ \E r \in WideCalls, amt \in WideAmounts, priority \in BOOLEAN :
          Request(r, amt, priority)
    \/ \E r \in Calls : RequestNotify(r)
    \/ \E r \in Calls : RequestWaitDone(r)
    \/ \E r \in Calls : RequestWaitStop(r)
    \/ \E amt \in WideAmounts : Return(amt)
    \/ Stop

\* Pools as in Init and the largest pool a word holds, each with a reserve.
WideInit ==
    /\ \E b \in (0..MaxBase) \cup {Word - 1}, p \in 1..MaxReserve :
          newMemoryManager(b, p)
    /\ pc = [r \in Calls |-> "idle"]
    /\ done = [r \in Calls |-> FALSE]
    /\ held = 0
    /\ parked = [r \in Calls |-> 0]
    /\ misused = FALSE
    /\ grantLog = <<>>
    /\ lastCall = NoReturn
    /\ atStop = {}

WideSpec == WideInit /\ [][WideNext]_vars

\* Liveness is checked for managers built as documented, with the reserve
\* inside the pool.
LiveInit == Init /\ priorityReserve <= base

LiveSpec == LiveInit /\ [][Next]_vars /\ Fairness

\* Callers that use the manager as documented while nobody closes the stop
\* channel: what a Return gives back is held by callers whose Request has
\* returned true, and whatever is held is given back in the end.
ReturnHeld == \E amt \in 0..MaxAmount : amt <= held /\ Return(amt)

ReturnFairness == WF_vars(\E amt \in 1..MaxAmount : amt <= held /\ Return(amt))

QuietNext ==
    \/ \E r \in Calls, amt \in 0..MaxAmount, priority \in BOOLEAN :
          Request(r, amt, priority)
    \/ \E r \in Calls : RequestNotify(r)
    \/ \E r \in Calls : RequestWaitDone(r)
    \/ ReturnHeld

QuietSpec == Init /\ [][QuietNext]_vars /\ Fairness /\ ReturnFairness

\* The same callers, asking also for the largest amounts a word holds.
WideReturnHeld == \E amt \in WideAmounts : amt <= held /\ Return(amt)

WideReturnFairness ==
    WF_vars(\E amt \in WideAmounts \ {0} : amt <= held /\ Return(amt))

WideQuietNext ==
    \/ \E r \in Calls, amt \in WideAmounts, priority \in BOOLEAN :
          Request(r, amt, priority)
    \/ \E r \in Calls : RequestNotify(r)
    \/ \E r \in Calls : RequestWaitDone(r)
    \/ WideReturnHeld

WideQuietSpec ==
    WideInit /\ [][WideQuietNext]_vars /\ Fairness /\ WideReturnFairness

\* Managers built with the largest pool and any reserve: whether Return can
\* run depends on the queues and on where the waiters are, which these
\* managers reach in every combination.
FullPoolInit == Init /\ base = MaxBase

FullPoolSpec == FullPoolInit /\ [][Next]_vars

TypeOK ==
    /\ available \in 0..(Word - 1)
    /\ underflow \in 0..(Word - 1)
    /\ memSinceGC \in 0..defaultMemory
    /\ Ids(fifo) \cup Ids(priorityFifo) \subseteq Calls

\* ================================================================ claims
\* Quota admitted by try and not yet returned.
Granted == held + SumOver(parked, Calls)

Grants == {grantLog[i] : i \in 1..Len(grantLog)}

\* C1 (as claimed): while callers return only what they were granted, either
\* underflow = 0 and available + granted-and-unreturned = base, or
\* available = 0 and underflow > 0.  Every state of the model is a point
\* where no Request or Return is inside the lock.
C1_NonOvercommit ==
    ~misused =>
        IF underflow = 0
        THEN available + Granted = base
        ELSE available = 0 /\ underflow > 0

\* C2 (as claimed): a waiter whose done channel has been closed never has its
\* Request return false.
C2_ReleasedNeverFalse == \A r \in Calls : done[r] => pc[r] # "false"

\* C3: a Request has returned false only if the stop channel is closed.
C3_FalseOnlyAfterStop == \A r \in Calls : pc[r] = "false" => stop

C3_Witness == \E r \in Calls : pc[r] = "false" /\ stop /\ lastCall = NoReturn

\* C4 (as claimed): right after any grant to a normal request, on the fast
\* path or in a drain, available >= priorityReserve.
C4_NormalGrantKeepsReserve ==
    \A g \in Grants : ~g.priority => g.available >= priorityReserve

\* C4, with the oversized-borrow branch set apart: right after a grant to a
\* normal request by the first branch of try, available >= priorityReserve; a
\* normal request admitted by the oversized-borrow branch has amount >= base
\* and takes the whole pool, the reserve included (available = 0).
C4_NormalPathKeepsReserve ==
    \A g \in Grants :
        ~g.priority =>
            /\ g.path = "normal" => g.available >= priorityReserve
            /\ g.path = "borrow" => g.available = 0 /\ g.amount >= base

C4_Witness ==
    \E g \in Grants :
        /\ ~g.priority /\ g.path = "normal" /\ g.amount > 0
        /\ priorityReserve > 0 /\ g.available = priorityReserve

\* C5 (as claimed): with both queues empty, a normal Request(amt) made when
\* amt <= available < amt + priorityReserve is not admitted: it joins the
\* normal queue.
C5_ReserveHonoured ==
    [][\A r \in Calls, amt \in WideAmounts :
          (/\ Request(r, amt, memoryPriorityLow)
           /\ Len(fifo) = 0 /\ Len(priorityFifo) = 0
           /\ amt <= available /\ available < amt + priorityReserve)
          => (/\ pc'[r] = "notify"
              /\ fifo' = <<memoryRequest(r, amt)>>
              /\ available' = available /\ underflow' = underflow)]_vars

\* C5, with the oversized-borrow branch set apart: the same, except when the
\* pool is idle and the request asks for exactly the whole pool
\* (available = base = amt), which the oversized-borrow branch admits.
C5_ReserveHonouredUnlessWholePool ==
    [][\A r \in Calls, amt \in WideAmounts :
          (/\ Request(r, amt, memoryPriorityLow)
           /\ Len(fifo) = 0 /\ Len(priorityFifo) = 0
           /\ amt <= available /\ available < amt + priorityReserve
           /\ ~(available = base /\ amt = base))
          => (/\ pc'[r] = "notify"
              /\ fifo' = <<memoryRequest(r, amt)>>
              /\ Len(grantLog') = 0
              /\ available' = available /\ underflow' = underflow)]_vars

C5_Witness ==
    \E r \in Calls :
        /\ pc[r] = "notify" /\ ~done[r]
        /\ Len(priorityFifo) = 0 /\ Len(fifo) = 1 /\ fifo[1].id = r
        /\ fifo[1].amount > 0
        /\ fifo[1].amount <= available
        /\ available < fifo[1].amount + priorityReserve
        /\ lastCall = NoReturn /\ ~misused

\* The admissions of class p made by the latest step from the queue (site
\* "drain") or ahead of it (site "fast"), in the order they were made.
Released(log, p, site) ==
    SelectSeq(log, LAMBDA g : g.priority = p /\ g.site = site)

\* C6: a normal request is admitted, by Request or by a Return, only when
\* every priority waiter that was queued before the step has been released
\* earlier in that same step; so the priority queue is empty at the moment of
\* every normal admission, whatever the amounts.
C6_PriorityPreemption ==
    [][\A i \in 1..Len(grantLog') :
          ~grantLog'[i].priority =>
              /\ \A k \in 1..Len(priorityFifo) :
                    \E j \in 1..(i - 1) :
                        /\ grantLog'[j].id = priorityFifo[k].id
                        /\ grantLog'[j].priority
              /\ Len(priorityFifo') = 0]_vars

C6_Witness ==
    \E i, j \in 1..Len(grantLog) :
        /\ i < j
        /\ grantLog[i].priority /\ grantLog[i].site = "drain"
        /\ ~grantLog[j].priority /\ grantLog[j].site = "drain"
        /\ grantLog[i].amount > 0 /\ grantLog[j].amount > 0

\* C7: in each class the waiters released by a step are the heads of that
\* class's queue, in queue order, and the rest of the queue stays in order; a
\* Request is admitted on the fast path only when the queue of its own class
\* is empty; a Request that is not admitted joins the tail of its queue.
C7_IntraClassFIFO ==
    [][\A p \in BOOLEAN :
          LET q == IF p THEN priorityFifo ELSE fifo
              qq == IF p THEN priorityFifo' ELSE fifo'
              rel == Released(grantLog', p, "drain")
              fast == Released(grantLog', p, "fast")
          IN  /\ Len(rel) <= Len(q)
              /\ \A k \in 1..Len(rel) :
                    rel[k].id = q[k].id /\ rel[k].amount = q[k].amount
              /\ Len(fast) > 0 => Len(q) = 0 /\ Len(qq) = 0
              /\ \/ qq = SubSeq(q, Len(rel) + 1, Len(q))
                 \/ /\ Len(rel) = 0
                    /\ Len(qq) = Len(q) + 1
                    /\ SubSeq(qq, 1, Len(q)) = q]_vars

C7_Witness ==
    \E p \in BOOLEAN :
        /\ Len(Released(grantLog, p, "drain")) = 2
        /\ Released(grantLog, p, "drain")[1].id <
               Released(grantLog, p, "drain")[2].id
        /\ Released(grantLog, p, "drain")[1].amount > 0

\* C8 (as claimed): a Request with amt > base made when the pool is idle
\* (available = base, nothing granted and unreturned) returns true at once,
\* leaving available = 0 and underflow = amt - base.
C8_OversizedWhenIdle ==
    [][\A r \in Calls, amt \in WideAmounts, p \in BOOLEAN :
          (/\ Request(r, amt, p)
           /\ amt > base /\ available = base /\ Granted = 0)
          => (/\ pc'[r] = "true"
              /\ available' = 0
              /\ underflow' = amt - base)]_vars

\* C8, for a Request that is eligible to try: the same when the priority
\* queue is empty and, for a normal caller, the normal queue is empty too.
C8_OversizedWhenIdleAndEligible ==
    [][\A r \in Calls, amt \in WideAmounts, p \in BOOLEAN :
          (/\ Request(r, amt, p)
           /\ amt > base /\ available = base /\ Granted = 0
           /\ Len(priorityFifo) = 0 /\ (p \/ Len(fifo) = 0))
          => (/\ pc'[r] = "true"
              /\ available' = 0
              /\ underflow' = amt - base
              /\ UNCHANGED <<fifo, priorityFifo>>)]_vars

C8_Witness ==
    \E g \in Grants :
        /\ g.site = "fast" /\ g.path = "borrow"
        /\ g.amount > base /\ base > 0
        /\ pc[g.id] = "true"
        /\ available = 0 /\ underflow = g.amount - base
        /\ Granted = g.amount

\* C9: a Return(a) in a state with underflow u > 0 pays the underflow first.
\* If a <= u: underflow becomes u - a, available is unchanged, nobody is
\* released.  If a > u: underflow is cleared and the pool the drain starts
\* from is available + (a - u) in uint64 arithmetic, capped at base.
\* available does not grow in a Return that leaves underflow > 0.  The
\* formula reads "the step has this outcome, or it is not a Return(a)", after
\* the tests that set most steps and amounts aside: Return leaves pc and stop
\* alone, takes its amount off held and writes lastCall.
C9_UnderflowPaidFirst ==
    [][\A a \in WideAmounts :
          (/\ underflow > 0
           /\ pc' = pc /\ stop' = stop
           /\ held' = (IF a <= held THEN held - a ELSE 0)
           /\ lastCall' = Returned(payBack(a).paid, payBack(a).critical))
          => \/ /\ underflow' > 0 => available' <= available
                /\ IF a <= underflow
                   THEN /\ underflow' = underflow - a
                        /\ available' = available
                        /\ Len(grantLog') = 0
                        /\ UNCHANGED <<fifo, priorityFifo, done>>
                   ELSE LET pool == Min(base, U64(available + (a - underflow)))
                        IN  IF Len(grantLog') = 0
                            THEN underflow' = 0 /\ available' = pool
                            ELSE grantLog'[1].available =
                                     IF grantLog'[1].path = "borrow" THEN 0
                                     ELSE U64(pool - grantLog'[1].amount)
             \/ ~Return(a)]_vars

C9_Witness ==
    /\ lastCall.paid > 0 /\ underflow > 0 /\ available = 0
    /\ Len(fifo) + Len(priorityFifo) > 0

\* C10: once the stop channel is closed, every Request that sits in a queue
\* (about to wait or waiting) returns, with no further Return needed: no call
\* stays queued for ever under a closed stop.  A call leaves "notify" and
\* "wait" only towards "true" or "false" and stop is never reopened, so this
\* is (stop /\ queued) ~> returned.
C10_ShutdownUnblocksAll ==
    \A r \in Calls :
        []<>~(stop /\ pc[r] \in {"notify", "wait"})

C10_Witness ==
    \E r \in Calls :
        /\ stop /\ pc[r] = "false" /\ ~done[r]
        /\ r \in Ids(fifo) \cup Ids(priorityFifo)

\* C11 (as claimed): a Request that was queued, with done still open, when the
\* stop channel was closed never returns true, whatever Returns come later.
C11_QueuedAtStopReturnsFalse ==
    [][\A r \in atStop : pc'[r] # "true"]_vars

\* C11 (amended): such a Request returns true only if a later Return closed
\* its done channel before it woke up (Return drains the queues after stop as
\* before); while its done channel is open it can only return false.
C11_QueuedAtStopFalseUnlessReleased ==
    [][\A r \in atStop :
          /\ pc'[r] = "true" => done[r]
          /\ (~done[r] /\ pc'[r] \in {"true", "false"}) => pc'[r] = "false"]_vars

\* Call r, issued before q and so queued before stop like q, returned false
\* with done open, although a Return after stop released q.
C11_Witness ==
    \E r, q \in Calls :
        /\ r < q /\ q \in atStop /\ done[q]
        /\ pc[r] = "false" /\ ~done[r]

\* C12 (as claimed): when Request(n, p) returns true at once from a state S,
\* the Return(n) that follows it with nothing in between leaves available,
\* underflow and both queues as they were in S and releases no waiter.  The
\* step is the Request; Return is applied to the state the Request leaves.
C12_RoundTrip ==
    [][\A r \in Calls, n \in WideAmounts, p \in BOOLEAN :
          (pc[r] = "idle" /\ Request(r, n, p) /\ pc'[r] = "true") =>
              \A av, uf \in 0..(Word - 1) :
                  (av = (payBack(n))'.available /\ uf = (payBack(n))'.underflow)
                  => IF (payBack(n))'.paidOnly
                     THEN /\ available' = available
                          /\ uf = underflow
                          /\ UNCHANGED <<fifo, priorityFifo>>
                     ELSE /\ (releaseAll(av, uf))'.available = available
                          /\ (releaseAll(av, uf))'.underflow = underflow
                          /\ (releaseAll(av, uf))'.fifo = fifo
                          /\ (releaseAll(av, uf))'.priorityFifo = priorityFifo
                          /\ (releaseAll(av, uf))'.log = <<>>]_vars

\* C13 (as claimed): in every state outside the lock, underflow > 0 implies
\* available = 0.
C13_UnderflowMeansEmptyPool == underflow > 0 => available = 0

\* C14 (as claimed): in every state outside the lock, available <= base,
\* whatever amounts are requested and returned.
C14_AvailableWithinBase == available <= base

\* C15 (as claimed): while callers return only what they were granted,
\* underflow = 0 implies that the quota granted and not yet returned is at
\* most base.
C15_HeldWithinBase == (~misused /\ underflow = 0) => Granted <= base

C17_CriticalOnlyOnMisuse == ~misused => ~lastCall.critical

\* Quota admitted by the latest step from its i-th admission on.
GrantedFrom(i) ==
    SumOver([j \in i..Len(grantLog) |-> grantLog[j].amount], i..Len(grantLog))

\* C18 (as claimed): while callers return only what they were granted, an
\* admission by the oversized-borrow branch of try is made when nobody else
\* holds quota: all that was granted and not returned before it is zero.
C18_BorrowIsExclusive ==
    ~misused =>
        \A i \in 1..Len(grantLog) :
            grantLog[i].path = "borrow" => Granted - GrantedFrom(i) = 0

\* C19 (as claimed): while underflow > 0 nothing of nonzero amount is
\* admitted: a Request that finds underflow > 0 is not granted on the fast
\* path, and a waiter that try reaches while underflow > 0 is not released
\* by Return.  The underflow a waiter meets is the one left by the admission
\* before it in the same Return; the first waiter meets 0, since Return
\* returns early unless it has paid the underflow off.
C19_UnderflowBlocksAdmission ==
    [][\A i \in 1..Len(grantLog') :
          LET before == IF i > 1 THEN grantLog'[i - 1].underflow
                        ELSE IF grantLog'[1].site = "fast" THEN underflow
                        ELSE 0
          IN  before > 0 => grantLog'[i].amount = 0]_vars

\* C20: the stop channel is read only by a queued call.  A Request issued
\* after stop was closed that finds the priority queue empty (and the normal
\* queue too, when it is a normal request) and whose amount passes the test
\* of line 69 or that of line 73 returns true without queueing, and the pool
\* changes as that branch changes it: available goes down by the amount in
\* uint64 arithmetic, or goes to 0 with underflow = amount - base.
C20_FastPathIgnoresStop ==
    [][\A r \in {q \in Calls : stop /\ pc[q] = "idle" /\ pc'[q] # "idle"},
          amt \in WideAmounts, p \in BOOLEAN :
          LET eligible == Len(priorityFifo) = 0 /\ (p \/ Len(fifo) = 0)
              fits == \/ available >= U64(amt + priorityReserve)
                      \/ p /\ available >= amt
              idle == available = base /\ amt >= available
          IN  (eligible /\ (fits \/ idle) /\ Request(r, amt, p))
              => /\ pc'[r] = "true"
                 /\ UNCHANGED <<fifo, priorityFifo, done>>
                 /\ IF fits
                    THEN /\ available' = U64(available - amt)
                         /\ underflow' = underflow
                    ELSE /\ available' = 0
                         /\ underflow' = amt - base]_vars

\* A request of nonzero amount was granted on the fast path after stop.
C20_Witness ==
    /\ stop
    /\ Len(grantLog) = 1
    /\ grantLog[1].site = "fast" /\ grantLog[1].amount > 0
    /\ pc[grantLog[1].id] = "true"

\* C21 (as claimed): priorityReserve <= base in every state of every manager
\* newMemoryManager builds, whatever its arguments.
C21_ReserveWithinBase == priorityReserve <= base

\* C22 (as claimed): in every pool and for every amount and class, try returns
\* true exactly when (priority and available >= amount) or (not priority and
\* available >= amount + priorityReserve), and then takes the amount off
\* available and leaves underflow alone; or, that test having failed, when
\* available = base and amount >= available, and then sets available to 0 and
\* underflow to amount - base; otherwise it returns false.  The comparisons
\* and differences are those of the integers.
C22_AdmissionPredicate ==
    \A amt \in WideAmounts, p \in BOOLEAN :
        LET t == try(available, underflow, amt, p)
            normal == \/ p /\ available >= amt
                      \/ ~p /\ available >= amt + priorityReserve
            borrow == ~normal /\ available = base /\ amt >= available
        IN  /\ t.ok = (normal \/ borrow)
            /\ normal => t.available = available - amt /\ t.underflow = underflow
            /\ borrow => t.available = 0 /\ t.underflow = amt - base

\* C23: a try that returns false leaves the manager as it found it.  In a
\* Request that was eligible and queued (try was called and refused),
\* available, underflow and memSinceGC are unchanged and the only change to
\* the queues is the caller's own entry at the tail of its class.  In a Return
\* that ends with a waiter left at the head it tried (the priority head, or
\* the normal head when the priority queue is empty), the pool is the one the
\* last admission of that Return left, or the one the payment left when none
\* was made, and memSinceGC is what lines 140-145 made of it.
C23_RefusalChangesNothing ==
    [][/\ \A r \in {c \in Calls : pc[c] = "idle" /\ pc'[c] = "notify"},
            amt \in WideAmounts, p \in BOOLEAN :
            (shouldTry(p) /\ Request(r, amt, p))
            => /\ available' = available /\ underflow' = underflow
               /\ memSinceGC' = memSinceGC
               /\ IF p
                  THEN /\ priorityFifo' = Append(priorityFifo, memoryRequest(r, amt))
                       /\ fifo' = fifo
                  ELSE /\ fifo' = Append(fifo, memoryRequest(r, amt))
                       /\ priorityFifo' = priorityFifo
       /\ (/\ pc' = pc /\ stop' = stop
           /\ Len(priorityFifo') + Len(fifo') > 0
           /\ Len(grantLog') > 0)
          => /\ available' = grantLog'[Len(grantLog')].available
             /\ underflow' = grantLog'[Len(grantLog')].underflow
       /\ \A a \in WideAmounts :
            (/\ pc' = pc /\ stop' = stop
             /\ Len(priorityFifo') + Len(fifo') > 0
             /\ Len(grantLog') = 0
             /\ held' = (IF a <= held THEN held - a ELSE 0)
             /\ memSinceGC' = gcCounter(a)
             /\ lastCall' = Returned(payBack(a).paid, payBack(a).critical)
             /\ ~payBack(a).paidOnly)
            => \/ /\ available' = payBack(a).available
                  /\ underflow' = payBack(a).underflow
               \/ ~Return(a)]_vars

\* A Return admitted one waiter and try refused the next one, in a pool that
\* was not empty.
C23_Witness ==
    /\ Len(grantLog) > 0
    /\ grantLog[Len(grantLog)].site = "drain"
    /\ grantLog[Len(grantLog)].amount > 0
    /\ Len(fifo) + Len(priorityFifo) > 0
    /\ available > 0
    /\ available = grantLog[Len(grantLog)].available

\* C24: a Request calls try exactly when the priority queue is empty and the
\* caller is a priority caller or the normal queue is empty too.  A Request
\* that is not eligible is queued at the tail of its class with available and
\* underflow unchanged, whatever the pool holds; an eligible one returns true
\* exactly when its amount passes the test of line 69 or that of line 73; so
\* a priority Request that finds the priority queue empty and
\* available >= amount returns true at once, past any normal waiters, which
\* stay queued.
C24_EligibilityRule ==
    [][\A r \in {c \in Calls : pc[c] = "idle" /\ pc'[c] # "idle"},
          amt \in WideAmounts, p \in BOOLEAN :
          LET eligible == Len(priorityFifo) = 0 /\ (p \/ Len(fifo) = 0)
              passes == \/ available >= U64(amt + priorityReserve)
                        \/ p /\ available >= amt
                        \/ available = base /\ amt >= available
          IN  Request(r, amt, p) =>
                /\ pc'[r] = "true" <=> (eligible /\ passes)
                /\ ~eligible =>
                     /\ pc'[r] = "notify"
                     /\ available' = available /\ underflow' = underflow
                     /\ Len(grantLog') = 0
                     /\ IF p
                        THEN /\ priorityFifo' =
                                    Append(priorityFifo, memoryRequest(r, amt))
                             /\ fifo' = fifo
                        ELSE /\ fifo' = Append(fifo, memoryRequest(r, amt))
                             /\ priorityFifo' = priorityFifo
                /\ (p /\ Len(priorityFifo) = 0 /\ available >= amt) =>
                     /\ pc'[r] = "true"
                     /\ available' = available - amt
                     /\ fifo' = fifo]_vars

\* A priority request was granted at once while a normal waiter that asks for
\* no more than it is still queued.
C24_Witness ==
    \E g \in Grants :
        /\ g.site = "fast" /\ g.priority /\ g.amount > 0
        /\ pc[g.id] = "true"
        /\ Len(fifo) > 0 /\ fifo[1].amount > 0
        /\ fifo[1].amount <= g.amount
        /\ ~done[fifo[1].id]

\* The test try makes of an amount in the current pool (lines 69 and 73).
Passes(amt, priority) ==
    \/ available >= U64(amt + priorityReserve)
    \/ priority /\ available >= amt
    \/ available = base /\ amt >= available

\* C25: a step releases the first k priority waiters and then the first m
\* normal waiters, in queue order and nobody else, normal ones only once the
\* priority queue is empty; and whenever nobody is inside the lock, the head
\* of the priority queue, if there is one, does not pass try as a priority
\* request, and with the priority queue empty the head of the normal queue,
\* if there is one, does not pass try as a normal request.
C25_WorkConservingDrain ==
    [][LET rel == SelectSeq(grantLog', LAMBDA g : g.site = "drain")
           k == Len(SelectSeq(rel, LAMBDA g : g.priority))
           m == Len(rel) - k
       IN  /\ k <= Len(priorityFifo) /\ m <= Len(fifo)
           /\ \A i \in 1..k :
                 rel[i].priority /\ rel[i].id = priorityFifo[i].id
           /\ \A i \in 1..m :
                 ~rel[k + i].priority /\ rel[k + i].id = fifo[i].id
           /\ Len(rel) > 0 =>
                 /\ priorityFifo' = SubSeq(priorityFifo, k + 1, Len(priorityFifo))
                 /\ fifo' = SubSeq(fifo, m + 1, Len(fifo))
           /\ m > 0 => Len(priorityFifo') = 0
           /\ Len(priorityFifo') > 0 =>
                 ~(Passes(priorityFifo[1].amount, memoryPriorityHigh))'
           /\ (Len(priorityFifo') = 0 /\ Len(fifo') > 0) =>
                 ~(Passes(fifo[1].amount, memoryPriorityLow))']_vars

\* A Return released the priority waiter at the head and stopped at the next
\* one, which asks for more than is left; no normal waiter was looked at.
C25_Witness ==
    /\ ~misused
    /\ Len(grantLog) = 1
    /\ grantLog[1].site = "drain" /\ grantLog[1].priority
    /\ grantLog[1].amount > 0
    /\ Len(priorityFifo) > 0
    /\ priorityFifo[1].amount > available

\* C26 (as claimed): no normal request whose amount lies strictly between
\* base - priorityReserve and base is ever admitted, on the fast path or by a
\* release loop.
C26_ReservedBandNeverAdmitted ==
    \A g \in Grants :
        ~g.priority => ~(base - priorityReserve < g.amount /\ g.amount < base)

\* C27 (as claimed): the two ways a waiter leaves are final.  A waiter whose
\* Request has returned false is not admitted by any later release loop (its
\* done channel is not closed and nothing is taken from the pool for it); a
\* waiter whose done channel has been closed does not return false; and a
\* call enters a queue only from its Request, once.
C27_WaiterTransitionsTerminal ==
    [][\A r \in Calls :
          /\ pc[r] = "false" =>
                /\ \A i \in 1..Len(grantLog') : grantLog'[i].id # r
                /\ done'[r] = done[r]
                /\ parked'[r] = parked[r]
          /\ done[r] => pc'[r] # "false"
          /\ (r \in Ids(fifo') \cup Ids(priorityFifo')
              /\ r \notin Ids(fifo) \cup Ids(priorityFifo))
             => pc[r] = "idle" /\ pc'[r] = "notify"]_vars

\* C28: a done channel is closed only by a release loop of Return, and then
\* it was open, its waiter was in a queue with everyone ahead of it in that
\* queue released earlier in the same Return, its amount passes the test of
\* line 69 or 73 in the pool left by the admission before it (by the payment,
\* for the first one), and the waiter is out of the queue when Return ends.
\* No Return releases a waiter twice, and no channel is closed a second time.
C28_ReleasedOnceAtHead ==
    [][/\ \A r \in Calls :
            done'[r] # done[r] =>
                /\ ~done[r] /\ pc' = pc /\ stop' = stop
                /\ \E i \in 1..Len(grantLog') :
                      grantLog'[i].id = r /\ grantLog'[i].site = "drain"
       /\ \A i \in 1..Len(grantLog') :
            LET g == grantLog'[i]
                q == IF g.priority THEN priorityFifo ELSE fifo
                qq == IF g.priority THEN priorityFifo' ELSE fifo'
                ahead == {j \in 1..(i - 1) :
                             grantLog'[j].priority = g.priority}
            IN  g.site = "drain" =>
                  /\ ~done[g.id] /\ done'[g.id]
                  /\ \A j \in 1..Len(grantLog') : grantLog'[j].id = g.id => j = i
                  /\ Cardinality(ahead) < Len(q)
                  /\ q[Cardinality(ahead) + 1] = memoryRequest(g.id, g.amount)
                  /\ g.id \notin Ids(qq)
                  /\ i > 1 =>
                        LET av == grantLog'[i - 1].available
                        IN  \/ av >= U64(g.amount + priorityReserve)
                            \/ g.priority /\ av >= g.amount
                            \/ av = base /\ g.amount >= av
       /\ \A a \in WideAmounts :
            (/\ pc' = pc /\ stop' = stop
             /\ Len(grantLog') > 0
             /\ held' = (IF a <= held THEN held - a ELSE 0)
             /\ lastCall' = Returned(payBack(a).paid, payBack(a).critical))
            => \/ LET av == payBack(a).available
                      g == grantLog'[1]
                  IN  \/ av >= U64(g.amount + priorityReserve)
                      \/ g.priority /\ av >= g.amount
                      \/ av = base /\ g.amount >= av
               \/ ~Return(a)]_vars

\* A Return has just released two waiters of nonzero amounts that are still
\* inside Request, and both are out of the queues.
C28_Witness ==
    /\ Len(grantLog) = 2
    /\ \A i \in 1..2 :
          /\ grantLog[i].site = "drain" /\ grantLog[i].amount > 0
          /\ done[grantLog[i].id]
          /\ pc[grantLog[i].id] \in {"notify", "wait"}
          /\ grantLog[i].id \notin Ids(fifo) \cup Ids(priorityFifo)
    /\ ~stop

\* C29: the Return that releases a waiter does the bookkeeping, the waiter
\* none.  Each admission of a release loop takes the amount off the pool the
\* admission before it left (off the pool the payment left, for the first
\* one), or sets available to 0 and underflow to amount - base, before the
\* next head is looked at, and Return ends with the pool the last admission
\* left; the Request that then returns true had its done channel closed and
\* changes nothing of the manager.
C29_ReleaseAfterAccounting ==
    [][/\ \A r \in Calls :
            (pc[r] \in {"notify", "wait"} /\ pc'[r] = "true") =>
                /\ done[r]
                /\ UNCHANGED <<mmVars, blocking, stop, done>>
       /\ \A i \in 2..Len(grantLog') :
            LET g == grantLog'[i]
                before == grantLog'[i - 1]
            IN  IF g.path = "borrow"
                THEN g.available = 0 /\ g.underflow = U64(g.amount - base)
                ELSE /\ g.available = U64(before.available - g.amount)
                     /\ g.underflow = before.underflow
       /\ (Len(grantLog') > 0 /\ grantLog'[1].site = "drain") =>
             /\ available' = grantLog'[Len(grantLog')].available
             /\ underflow' = grantLog'[Len(grantLog')].underflow
             /\ \A i \in 1..Len(grantLog') :
                   /\ done'[grantLog'[i].id]
                   /\ parked'[grantLog'[i].id] =
                          parked[grantLog'[i].id] + grantLog'[i].amount
       /\ \A a \in WideAmounts :
            (/\ pc' = pc /\ stop' = stop
             /\ Len(grantLog') > 0
             /\ held' = (IF a <= held THEN held - a ELSE 0)
             /\ lastCall' = Returned(payBack(a).paid, payBack(a).critical))
            => \/ LET g == grantLog'[1] IN
                  IF g.path = "borrow"
                  THEN g.available = 0 /\ g.underflow = U64(g.amount - base)
                  ELSE /\ g.available = U64(payBack(a).available - g.amount)
                       /\ g.underflow = payBack(a).underflow
               \/ ~Return(a)]_vars

\* A waiter released by a Return has returned true; what it was granted is
\* counted as held, and pool and grants add up to base.
C29_Witness ==
    \E r \in Calls :
        /\ pc[r] = "true" /\ done[r]
        /\ parked[r] = 0 /\ held > 0
        /\ Len(grantLog) = 0 /\ lastCall = NoReturn
        /\ ~misused /\ underflow = 0 /\ base > 0
        /\ available + Granted = base

\* The waiters a release loop has admitted in the latest step.
JustReleased == {grantLog[i].id : i \in {j \in 1..Len(grantLog) :
                                            grantLog[j].site = "drain"}}

\* C30: a release is not lost on a waiter that is not yet in its select.  A
\* waiter that a Return admits while it is still at the send on mm.blocking
\* finds its done channel closed from then on; as long as stop is not closed
\* it leaves Request only by returning true, and it does not stay inside
\* Request for ever.
C30_NoLostWakeup ==
    /\ [][\A r \in Calls :
             /\ (r \in JustReleased' /\ pc[r] \in {"notify", "wait"}) => done'[r]
             /\ done[r] => done'[r]
             /\ (done[r] /\ ~stop /\ pc[r] \in {"notify", "wait"}
                 /\ pc'[r] \notin {"notify", "wait"}) => pc'[r] = "true"]_vars
    /\ \A r \in Calls :
          []<>~(done[r] /\ ~stop /\ pc[r] \in {"notify", "wait"})

\* A Return has just released a waiter that has not reached its select yet,
\* and stop is not closed.
C30_Witness ==
    \E r \in JustReleased :
        /\ pc[r] = "notify" /\ done[r] /\ ~stop
        /\ parked[r] > 0

\* C38 (as claimed): an admission by the oversized-borrow branch of try is
\* made in a pool with underflow = 0, whatever base is.  A Request on the
\* fast path meets the underflow of the state before it; a waiter released by
\* Return meets the underflow left by the admission before it in the same
\* Return, and the first waiter meets 0 (Return returns early unless it has
\* paid the underflow off).
C38_BorrowOnlyWithoutDebt ==
    [][\A i \in 1..Len(grantLog') :
          grantLog'[i].path = "borrow" =>
              IF i > 1 THEN grantLog'[i - 1].underflow = 0
              ELSE grantLog'[1].site = "fast" => underflow = 0]_vars

\* C39 (as claimed): for all inputs a word can hold, an admission by the
\* first branch of try is of an amount no larger than the pool try found, so
\* available - amount does not wrap.  A Request on the fast path finds the
\* pool of the state before it; the first waiter a Return releases finds the
\* pool Return has just paid back into, and each later one the pool left by
\* the admission before it.
C39_NormalPathFitsPool ==
    [][\A i \in 1..Len(grantLog') :
          grantLog'[i].path = "normal" =>
              IF i > 1 THEN grantLog'[i].amount <= grantLog'[i - 1].available
              ELSE IF grantLog'[1].site = "fast"
              THEN grantLog'[1].amount <= available
              ELSE \A a \in WideAmounts :
                      Return(a) => grantLog'[1].amount <= payBack(a).available
      ]_vars

\* C33: every Return adds its whole argument to memSinceGC (a uint64 sum)
\* before it looks at the underflow, also when it only pays underflow; it runs
\* the GC exactly when the sum is above defaultMemory, and then memSinceGC is
\* 0, otherwise memSinceGC is the sum.  So memSinceGC <= defaultMemory after
\* every step, and no step of a Request (nor Stop) changes it.
C33_CompactionTrigger ==
    [][/\ memSinceGC' <= defaultMemory
       /\ (pc' # pc \/ stop' # stop) => memSinceGC' = memSinceGC
       /\ \A a \in 0..MaxAmount :
             \/ ~(/\ pc' = pc /\ stop' = stop
                  /\ held' = (IF a <= held THEN held - a ELSE 0)
                  /\ misused' = (misused \/ a > held)
                  /\ lastCall' = Returned(payBack(a).paid, payBack(a).critical))
             \/ memSinceGC' = (IF U64(memSinceGC + a) > defaultMemory
                               THEN 0 ELSE U64(memSinceGC + a))
             \/ ~Return(a)]_vars

\* A Return of 1 that only paid underflow (debt is left, nobody was released)
\* and still raised memSinceGC from 0 to 1.
C33_Witness ==
    /\ lastCall.paid = 1 /\ underflow > 0 /\ memSinceGC = 1
    /\ grantLog = <<>> /\ fifo = <<>> /\ priorityFifo = <<>>

\* C34: a Request admitted at once (lines 93-98) changes only available, and
\* underflow when it is admitted by the oversized-borrow branch: both queues,
\* memSinceGC, base and priorityReserve stay as they were, the caller is in
\* neither queue and no done channel changes (no waiter was created), nothing
\* is sent on mm.blocking, and no other call moves.
C34_FastPathFrame ==
    [][\A r \in {c \in Calls : pc[c] = "idle" /\ pc'[c] = "true"} :
          /\ fifo' = fifo /\ priorityFifo' = priorityFifo
          /\ memSinceGC' = memSinceGC
          /\ base' = base /\ priorityReserve' = priorityReserve
          /\ blocking' = blocking /\ done' = done /\ stop' = stop
          /\ r \notin Ids(fifo') \cup Ids(priorityFifo')
          /\ \A c \in Calls \ {r} : pc'[c] = pc[c]
          /\ Len(grantLog') = 1 /\ grantLog'[1].id = r
          /\ grantLog'[1].site = "fast"
          /\ grantLog'[1].path = "normal" =>
                /\ underflow' = underflow
                /\ available' = U64(available - grantLog'[1].amount)
          /\ grantLog'[1].path = "borrow" =>
                /\ available' = 0
                /\ underflow' = U64(grantLog'[1].amount - base)
          /\ underflow' # underflow => grantLog'[1].path = "borrow"]_vars

\* A priority Request admitted at once while the normal queue is not empty.
C34_Witness ==
    \E g \in Grants :
        /\ g.site = "fast" /\ g.priority /\ g.amount > 0
        /\ pc[g.id] = "true" /\ fifo # <<>>

\* C35: Return can run to its end in every state, whatever the waiters and the
\* stop channel are doing; a step of Return moves no Request, its two loops
\* admit no more waiters than the two queues held, each admission takes one
\* head off its queue (the admissions are the removed heads, priority queue
\* first, in order), and each admitted waiter's done channel, open until then,
\* is closed by the step, also when that waiter has already left Request with
\* false.
C35_ReturnCompletes ==
    /\ [](\A a \in 0..MaxAmount : ENABLED Return(a))
    /\ [][(pc' = pc /\ stop' = stop) =>
            LET np == Len(priorityFifo) - Len(priorityFifo')
                nf == Len(fifo) - Len(fifo')
            IN  /\ np >= 0 /\ nf >= 0
                /\ Len(grantLog') = np + nf
                /\ Len(grantLog') <= Len(priorityFifo) + Len(fifo)
                /\ priorityFifo' = SubSeq(priorityFifo, np + 1, Len(priorityFifo))
                /\ fifo' = SubSeq(fifo, nf + 1, Len(fifo))
                /\ \A i \in 1..np : grantLog'[i].id = priorityFifo[i].id
                /\ \A i \in 1..nf : grantLog'[np + i].id = fifo[i].id
                /\ \A i \in 1..Len(grantLog') :
                      ~done[grantLog'[i].id] /\ done'[grantLog'[i].id]]_vars

\* A Return has just released a waiter that had left Request with false.
C35_Witness ==
    \E g \in Grants :
        g.site = "drain" /\ pc[g.id] = "false" /\ done[g.id] /\ stop

\* q2 is q1 without some of its first elements.
IsSuffix(q2, q1) ==
    Len(q2) <= Len(q1) /\ q2 = SubSeq(q1, Len(q1) - Len(q2) + 1, Len(q1))

\* C36: no call is in both queues and none is twice in one.  A step changes
\* the queues only in two ways: a Request that is not admitted appends its
\* memoryRequest at the tail of the queue of its class (priority requests to
\* priorityFifo, the others to fifo) and leaves the other queue alone; a
\* Return takes heads off (each queue afterwards is what it was without some
\* first elements).  So a waiter stays in the queue it joined until a Return
\* takes it off that queue's head.
C36_QueueDiscipline ==
    /\ [](/\ Ids(fifo) \cap Ids(priorityFifo) = {}
          /\ Cardinality(Ids(fifo)) = Len(fifo)
          /\ Cardinality(Ids(priorityFifo)) = Len(priorityFifo))
    /\ [][LET joins == {c \in Calls : pc[c] = "idle" /\ pc'[c] = "notify"}
          IN  /\ \A r \in joins :
                    \A amt \in 0..MaxAmount, p \in BOOLEAN :
                        Request(r, amt, p) =>
                            IF p
                            THEN /\ priorityFifo' =
                                      Append(priorityFifo, memoryRequest(r, amt))
                                 /\ fifo' = fifo
                            ELSE /\ fifo' = Append(fifo, memoryRequest(r, amt))
                                 /\ priorityFifo' = priorityFifo
              /\ (joins = {} /\ (pc' # pc \/ stop' # stop)) =>
                    fifo' = fifo /\ priorityFifo' = priorityFifo
              /\ (pc' = pc /\ stop' = stop) =>
                    IsSuffix(fifo', fifo) /\ IsSuffix(priorityFifo', priorityFifo)
       ]_vars

\* One waiter in each queue, both blocked in their select.
C36_Witness ==
    /\ Len(priorityFifo) = 1 /\ Len(fifo) = 1
    /\ pc[priorityFifo[1].id] = "wait" /\ pc[fifo[1].id] = "wait"

\* The calls that have joined a queue, and those that have been through the
\* send of lines 115-118 since.
Enqueued == {r \in Calls : pc[r] \in {"notify", "wait", "false"} \/ done[r]}

Notified ==
    {r \in Calls : pc[r] \in {"wait", "false"} \/ (pc[r] = "true" /\ done[r])}

\* C37: mm.blocking holds at most one note, and no more notes than Requests
\* have been through the send, each of which had joined a queue before (so no
\* more notes than enqueues).  A Request at the send can always take its step,
\* full channel or not; the step leaves one note in the channel (its own, or
\* the one that was there when its own is dropped), takes the Request on to
\* its select and touches nothing of the manager.  No other step writes the
\* channel.
C37_BestEffortNotice ==
    /\ [](/\ blocking \in 0..1
          /\ blocking <= Cardinality(Notified)
          /\ Notified \subseteq Enqueued
          /\ \A r \in Calls : pc[r] = "notify" => ENABLED RequestNotify(r))
    /\ [][/\ \A r \in {c \in Calls : pc[c] = "notify" /\ pc'[c] # "notify"} :
                /\ pc'[r] = "wait"
                /\ blocking' = 1
                /\ r \in Ids(fifo) \cup Ids(priorityFifo) \/ done[r]
                /\ mmVars' = mmVars
          /\ blocking' # blocking =>
                \E r \in Calls : pc[r] = "notify" /\ pc'[r] = "wait"]_vars

\* Two Requests have been through the send and wait; the channel holds the
\* one note, the other was dropped.
C37_Witness ==
    /\ blocking = 1
    /\ Cardinality({r \in Calls : pc[r] = "wait"}) >= 2

\* C31 (as claimed): while the stop channel stays open and callers give back
\* what they hold and nothing else, every waiter in the priority queue is
\* released in the end, whatever amount it asked for: no call stays in
\* priorityFifo for ever.
C31_PriorityLiveness ==
    \A r \in Calls : []<>~(r \in Ids(priorityFifo))

\* C32 (as claimed): while the stop channel stays open, callers give back
\* what they hold and nothing else, and priority requests stop arriving, every
\* normal request with amount <= base - priorityReserve is granted in the end:
\* no such request stays in fifo for ever.
C32_NormalLiveness ==
    \A r \in Calls :
        []<>~(\E i \in 1..Len(fifo) :
                 fifo[i].id = r /\ fifo[i].amount + priorityReserve <= base)

====
